---- MODULE Spec2Model ----
(***************************************************************************)
(* Model of slide_creator_v3.py: the text normaliser postprocess, the      *)
(* retry wrapper around call_llm, and the Streamlit script run (login      *)
(* guard, upload callback, generate block, session_state artifacts).       *)
(*                                                                         *)
(* Text is a sequence of characters.  A character is written as a short    *)
(* ASCII name:                                                             *)
(*   "P" "p" "="  half-width letters and equals sign                       *)
(*   "FWP" "FWp" "FW="  full-width P, full-width p, full-width equals      *)
(*   "SP" "NL"  space and line feed          "4"  a decimal digit          *)
(*   "TSUKI" month   "KA" the counter infix                                *)
(*   "LB" "RB" corner brackets   "LW" "RW" white corner brackets           *)
(*   "LDQ" "RDQ" curly double quotes   "DQ" ASCII quote  "FWDQ" full-width *)
(*   "TAI" "SHO" "GUN"  the three characters of the control-group term     *)
(*   "KO" "N" "TO" "RO" "CHO" "RU"  the katakana of the canonical term     *)
(*   "F" "r" "e" "d" "o" "m" "f"  letters of "Freedom from"                *)
(*   "KAI" "HI"  the two characters of the gloss for "Freedom from"        *)
(*   "SU" "RA" "I" "DO" "NI"  the characters of "slide" + particle         *)
(*   "TEI" "JI" "HYO"  presented = TEI JI, displayed = HYO JI              *)
(*   "MARU"  the ideographic full stop      "a"  any other character       *)
(***************************************************************************)
EXTENDS Integers, Sequences, FiniteSets, TLC

VARIABLES
    \* ---- normaliser harness ----
    text,        \* the raw manuscript handed to postprocess
    nfrags,      \* how many fragments the raw manuscript was built from
    stage,       \* "input" | "once" | "twice"
    out1,        \* postprocess(text)
    out2,        \* postprocess(postprocess(text))
    \* ---- Streamlit session ----
    env,           \* APP_PASSWORD_HASH of the process environment, "unset" if absent
    session_state, \* st.session_state: a function on the keys that are present
    uploaded,      \* value of the file_uploader widget, "None" if empty
    login_pw,      \* input_pw of the last script run in which login was clicked
    pc,            \* "idle": no script run in progress; "calling": inside call_llm
    attempts,      \* calls of client.responses.create made by the current/last run
    failures,      \* exception kinds those calls raised, in order
    slept,         \* seconds of backoff the retry wrapper waited in this run
    result,        \* <<how the current/last run's generate block ended, exception kind>>
    shown          \* UI elements the current/last script run rendered

pvars == <<text, nfrags, stage, out1, out2>>
svars == <<env, session_state, uploaded, login_pw, pc, attempts, failures, slept,
           result, shown>>
vars == <<pvars, svars>>

(***************************************************************************)
(* Character classes used by the regular expressions of postprocess.       *)
(***************************************************************************)
\* \s of the re module, restricted to the alphabet
Whitespace == {"SP", "NL"}
\* \d
Digits == {"4"}
\* [P FWp FWP] of line 224
PClass == {"P", "FWp", "FWP"}
\* the leading class of line 234
OpenQuotes == {"LB", "LW", "LDQ", "DQ", "FWDQ"}
\* the trailing class of line 235 (as written in the source)
CloseQuotes == {"RB", "LW", "RDQ", "DQ", "FWDQ"}
\* [^\n MARU] of line 243 excludes these
Terminators == {"NL", "MARU"}

TaishoGun == <<"TAI", "SHO", "GUN">>
ControlGun == <<"KO", "N", "TO", "RO", "CHO", "RU", "GUN">>
FreedomFrom == <<"F", "r", "e", "e", "d", "o", "m", "SP", "f", "r", "o", "m">>
Kaihi == <<"KAI", "HI">>
SlideNi == <<"SU", "RA", "I", "DO", "NI">>
Teiji == <<"TEI", "JI">>
Hyoji == <<"HYO", "JI">>

(***************************************************************************)
(* Sequence helpers.                                                       *)
(***************************************************************************)
\* does pat occur in t starting at index i
MatchAt(t, i, pat) ==
    /\ i >= 1
    /\ i + Len(pat) - 1 <= Len(t)
    /\ \A k \in 1..Len(pat) : t[i + k - 1] = pat[k]

\* does pat occur anywhere in t
Contains(t, pat) == \E i \in 1..Len(t) : MatchAt(t, i, pat)

\* suffix of t from index i
From(t, i) == SubSeq(t, i, Len(t))

\* first index >= i whose character is not in set S (Len(t)+1 if none)
RECURSIVE SkipSet(_, _, _)
SkipSet(t, i, S) ==
    IF i <= Len(t) /\ t[i] \in S THEN SkipSet(t, i + 1, S) ELSE i

\* last index <= i whose character is not in set S (0 if none)
RECURSIVE SkipSetBack(_, _, _)
SkipSetBack(t, i, S) ==
    IF i >= 1 /\ t[i] \in S THEN SkipSetBack(t, i - 1, S) ELSE i

(***************************************************************************)
(* Pass 1, line 224: re.sub(r"[P FWp FWP]\s*=\s*", "p=", text)             *)
(***************************************************************************)
RECURSIVE SubPValue(_, _)
SubPValue(t, i) ==
    IF i > Len(t) THEN <<>>
    ELSE IF t[i] \in PClass
              /\ SkipSet(t, i + 1, Whitespace) <= Len(t)
              /\ t[SkipSet(t, i + 1, Whitespace)] = "="
         THEN <<"p", "=">>
              \o SubPValue(t, SkipSet(t, SkipSet(t, i + 1, Whitespace) + 1, Whitespace))
         ELSE <<t[i]>> \o SubPValue(t, i + 1)

(***************************************************************************)
(* Pass 2, line 227: re.sub(r"(?<=\d)TSUKI", "KA TSUKI", text)             *)
(***************************************************************************)
RECURSIVE SubMonth(_, _)
SubMonth(t, i) ==
    IF i > Len(t) THEN <<>>
    ELSE IF t[i] = "TSUKI" /\ i > 1 /\ t[i - 1] \in Digits
         THEN <<"KA", "TSUKI">> \o SubMonth(t, i + 1)
         ELSE <<t[i]>> \o SubMonth(t, i + 1)

(***************************************************************************)
(* Pass 3, lines 230-238: the first non-blank line loses its surrounding   *)
(* whitespace, its leading run of opening quotes and its trailing run of   *)
(* closing quotes; the lines are joined again with "\n".                   *)
(***************************************************************************)
\* index of the first "NL" of t, 0 if none
FirstNL(t) ==
    IF \E i \in 1..Len(t) : t[i] = "NL"
    THEN CHOOSE i \in 1..Len(t) : t[i] = "NL" /\ \A j \in 1..(i - 1) : t[j] # "NL"
    ELSE 0

\* str.splitlines(): no line for the empty string, none after a final "\n"
RECURSIVE SplitLines(_)
SplitLines(t) ==
    IF t = <<>> THEN <<>>
    ELSE IF FirstNL(t) = 0 THEN <<t>>
    ELSE <<SubSeq(t, 1, FirstNL(t) - 1)>> \o SplitLines(From(t, FirstNL(t) + 1))

\* "\n".join(lines)
RECURSIVE JoinLines(_)
JoinLines(lines) ==
    IF lines = <<>> THEN <<>>
    ELSE IF Len(lines) = 1 THEN lines[1]
    ELSE lines[1] \o <<"NL">> \o JoinLines(Tail(lines))

\* str.strip()
Strip(line) ==
    SubSeq(line, SkipSet(line, 1, Whitespace), SkipSetBack(line, Len(line), Whitespace))

\* re.sub(r'^[open]+', "", t) then re.sub(r'[close]+$', "", t)
StripQuotes(t) ==
    LET u == From(t, SkipSet(t, 1, OpenQuotes))
    IN  SubSeq(u, 1, SkipSetBack(u, Len(u), CloseQuotes))

TitleLine(t) ==
    LET lines == SplitLines(t)
        nonblank == {i \in 1..Len(lines) : Strip(lines[i]) # <<>>}
    IN  IF nonblank = {} THEN JoinLines(lines)
        ELSE LET i == CHOOSE k \in nonblank : \A m \in nonblank : k <= m
             IN  JoinLines([lines EXCEPT ![i] = StripQuotes(Strip(lines[i]))])

(***************************************************************************)
(* Pass 4, lines 241-242: str.replace(old, new), leftmost non-overlapping. *)
(***************************************************************************)
RECURSIVE Replace(_, _, _, _)
Replace(t, i, old, new) ==
    IF i > Len(t) THEN <<>>
    ELSE IF MatchAt(t, i, old) THEN new \o Replace(t, i + Len(old), old, new)
    ELSE <<t[i]>> \o Replace(t, i + 1, old, new)

(***************************************************************************)
(* Pass 5, line 243:                                                       *)
(*   re.sub(r"SlideNi[^\n MARU]*?(Teiji|Hyoji)[^\n MARU]*?MARU", "", text) *)
(* A match starts at an occurrence of SlideNi; the lazy runs cannot cross  *)
(* a terminator, so the match exists iff the stretch up to the first       *)
(* terminator holds Teiji or Hyoji and that terminator is MARU, and it     *)
(* ends at that MARU.                                                      *)
(***************************************************************************)
\* index of the MARU closing a match that starts at i, 0 if no match at i
SlideMatchEnd(t, i) ==
    IF ~MatchAt(t, i, SlideNi) THEN 0
    ELSE LET e == SkipSet(t, i + Len(SlideNi), {c \in {t[k] : k \in 1..Len(t)} : c \notin Terminators})
         IN  IF /\ e <= Len(t)
                /\ t[e] = "MARU"
                /\ \E j \in (i + Len(SlideNi))..(e - 2) :
                       MatchAt(t, j, Teiji) \/ MatchAt(t, j, Hyoji)
             THEN e
             ELSE 0

RECURSIVE RemoveSlidePhrase(_, _)
RemoveSlidePhrase(t, i) ==
    IF i > Len(t) THEN <<>>
    ELSE IF SlideMatchEnd(t, i) # 0 THEN RemoveSlidePhrase(t, SlideMatchEnd(t, i) + 1)
    ELSE <<t[i]>> \o RemoveSlidePhrase(t, i + 1)

(***************************************************************************)
(* postprocess, lines 218-245.                                             *)
(***************************************************************************)
postprocess(t) ==
    IF t = <<>> THEN t
    ELSE LET t1 == SubPValue(t, 1)
             t2 == SubMonth(t1, 1)
             t3 == TitleLine(t2)
             t4 == Replace(t3, 1, TaishoGun, ControlGun)
             t5 == Replace(t4, 1, FreedomFrom, Kaihi)
         IN  RemoveSlidePhrase(t5, 1)

(***************************************************************************)
(* Normaliser harness: a raw manuscript is assembled from fragments (the   *)
(* language model's output is uncontrolled), then normalised, then         *)
(* normalised a second time.                                               *)
(***************************************************************************)
MaxFrags == 3

Fragments ==
    { <<"P">>, <<"FWP">>, <<"p">>, <<"=">>, <<"FW=">>, <<"SP">>, <<"NL">>,
      <<"4">>, <<"TSUKI">>, <<"DQ">>, <<"LB">>, <<"RB">>, <<"LW">>, <<"RW">>,
      <<"a">>, <<"MARU">>, TaishoGun, FreedomFrom,
      SlideNi \o Teiji \o <<"MARU">>, SlideNi \o Hyoji }

PInit ==
    /\ text = <<>>
    /\ nfrags = 0
    /\ stage = "input"
    /\ out1 = <<>>
    /\ out2 = <<>>

AppendFragment(f) ==
    /\ stage = "input"
    /\ nfrags < MaxFrags
    /\ text' = text \o f
    /\ nfrags' = nfrags + 1
    /\ UNCHANGED <<stage, out1, out2>>
    /\ UNCHANGED svars

Normalize ==
    /\ stage = "input"
    /\ out1' = postprocess(text)
    /\ stage' = "once"
    /\ UNCHANGED <<text, nfrags, out2>>
    /\ UNCHANGED svars

NormalizeAgain ==
    /\ stage = "once"
    /\ out2' = postprocess(out1)
    /\ stage' = "twice"
    /\ UNCHANGED <<text, nfrags, out1>>
    /\ UNCHANGED svars


(***************************************************************************)
(* Password gate, lines 28-34 and 52-73.                                   *)
(***************************************************************************)
DEFAULT_PASSWORD_HASH == <<>>

\* passwords typed into the sidebar
Passwords == {"", "secret", "wrong"}

\* hashlib.sha256(text.encode("utf-8")).hexdigest(); the digest is one token,
\* named by the first hex digits of the real digest
_sha256(pw) ==
    CASE pw = "" -> <<"e3b0c442">>
      [] pw = "secret" -> <<"2bb80d53">>
      [] pw = "wrong" -> <<"8810ad58">>

\* values APP_PASSWORD_HASH can have in the environment (a sequence of tokens)
EnvValues ==
    { "unset", <<>>, <<"SP">>, <<"2bb80d53">>, <<"SP", "2bb80d53", "NL">>, <<"ffffffff">> }

\* os.getenv("APP_PASSWORD_HASH", DEFAULT_PASSWORD_HASH).strip()
_get_password_hash(e) == Strip(IF e = "unset" THEN DEFAULT_PASSWORD_HASH ELSE e)

\* API keys typed into the sidebar
ApiKeys == { <<>>, <<"SP">>, <<"k">>, <<"SP", "k", "SP">> }

\* st.session_state.get(k, default)
Get(ss, k, default) == IF k \in DOMAIN ss THEN ss[k] ELSE default

\* st.session_state[k] = v
Put(ss, k, v) == [x \in (DOMAIN ss) \cup {k} |-> IF x = k THEN v ELSE ss[x]]

\* lines 52-63: what a script run does to session_state before the guards
AfterLogin(ss, e, login, pw, key) ==
    IF ~login THEN ss
    ELSE IF _get_password_hash(e) # <<>>
         THEN Put(Put(ss, "auth_ok", _sha256(pw) = _get_password_hash(e)), "api_key", Strip(key))
         ELSE Put(Put(ss, "auth_ok", TRUE), "api_key", Strip(key))

\* the guard of lines 66-73 without its auth_ok check
GuardWithoutAuth(ss) ==
    IF Strip(Get(ss, "api_key", <<>>)) = <<>> THEN "error_api_key" ELSE "pass"

\* lines 66-73: the element shown by the guard that stops the run, "pass" if none does
Guard(ss) ==
    IF ~Get(ss, "auth_ok", FALSE) THEN "info_login"
    ELSE IF Strip(Get(ss, "api_key", <<>>)) = <<>> THEN "error_api_key"
    ELSE "pass"

(***************************************************************************)
(* Artifacts, lines 215-216, 247-249, 286-299, 325, 344-354.               *)
(***************************************************************************)
ArtifactKeys == {"gen_text", "docx_bytes", "last_key"}

\* _reset_output forgetting one of the keys
_reset_output_partial(ss) == [x \in (DOMAIN ss) \ {"gen_text", "docx_bytes"} |-> ss[x]]

\* _reset_output: pop the three artifact keys
_reset_output(ss) == [x \in (DOMAIN ss) \ ArtifactKeys |-> ss[x]]

\* files the user can put into the uploader; the last one is not a readable PDF
Files == {"a.pdf", "b.pdf", "broken.pdf"}
Unreadable == {"broken.pdf"}

\* hash_bytes(name + pdf_bytes + RULES): a digest that identifies the file
cache_key(f) == <<"sha256", f, "RULES">>

\* str.split("\n"): one paragraph per line, a last empty one after a final "\n"
RECURSIVE SplitParagraphs(_)
SplitParagraphs(t) ==
    IF FirstNL(t) = 0 THEN <<t>>
    ELSE <<SubSeq(t, 1, FirstNL(t) - 1)>> \o SplitParagraphs(From(t, FirstNL(t) + 1))

\* to_docx: the document is its style and its paragraphs
to_docx(t) == [font |-> "MS Mincho", size |-> 11, paragraphs |-> SplitParagraphs(t)]

\* lines 344-354: what the tail of the script renders
Display(ss) ==
    IF {"gen_text", "docx_bytes"} \subseteq DOMAIN ss
    THEN {"success", "download", "expander"}
    ELSE {}

\* what a script run renders when it does not enter the generate block
Render(ss) == IF Guard(ss) # "pass" THEN {Guard(ss)} ELSE Display(ss)

(***************************************************************************)
(* Retry policy of call_llm, lines 251-256 (tenacity), over the exception  *)
(* classes of the openai package imported at line 18.                      *)
(***************************************************************************)
\* exceptions client.responses.create can raise
ExcKinds ==
    { "RateLimitError", "APITimeoutError", "InternalServerError",
      "AuthenticationError", "BadRequestError", "TypeError" }

\* the classes an exception of each kind is an instance of
Ancestors(kind) ==
    CASE kind = "RateLimitError" -> {"RateLimitError", "APIStatusError", "APIError"}
      [] kind = "InternalServerError" -> {"InternalServerError", "APIStatusError", "APIError"}
      [] kind = "AuthenticationError" -> {"AuthenticationError", "APIStatusError", "APIError"}
      [] kind = "BadRequestError" -> {"BadRequestError", "APIStatusError", "APIError"}
      [] kind = "APITimeoutError" -> {"APITimeoutError", "APIConnectionError", "APIError"}
      [] OTHER -> {kind}

\* retry=retry_if_exception_type((APIError, RateLimitError, APITimeoutError))
RetryTypes == {"APIError", "RateLimitError", "APITimeoutError"}
ShouldRetry(kind) == Ancestors(kind) \cap RetryTypes # {}

\* stop=stop_after_attempt(4)
MaxAttempt == 4
\* the stop condition off by one
StopAfterAttemptLate(n) == n > MaxAttempt
StopAfterAttempt(n) == n >= MaxAttempt

\* wait=wait_exponential(multiplier=1, min=2, max=20): max(min, min(2^(n-1), max))
WaitMin == 2
WaitMax == 20
Max(a, b) == IF a >= b THEN a ELSE b
Min(a, b) == IF a <= b THEN a ELSE b
WaitExponential(n) == Max(WaitMin, Min(2 ^ (n - 1), WaitMax))

\* texts the language model can return
RawTexts ==
    { <<>>, <<"a">>,
      <<"LB", "a", "RB", "NL", "P", "SP", "=", "4", "MARU">> }

(***************************************************************************)
(* The session: every user interaction reruns the script top to bottom.    *)
(***************************************************************************)
SInit ==
    /\ env \in EnvValues
    /\ session_state = << >>
    /\ uploaded = "None"
    /\ login_pw = ""
    /\ pc = "idle"
    /\ attempts = 0
    /\ failures = <<>>
    /\ slept = 0
    /\ result = <<"none", "">>
    /\ shown = {"info_login"}

Init == PInit /\ SInit

\* a run that makes no call to the language model
NoCall ==
    /\ attempts' = 0
    /\ failures' = <<>>
    /\ slept' = 0

\* the sidebar button "login" is clicked: login = True, run_btn = False
LoginClick(pw, key) ==
    /\ pc = "idle"
    /\ session_state' = AfterLogin(session_state, env, TRUE, pw, key)
    /\ login_pw' = pw
    /\ shown' = Render(session_state')
    /\ result' = <<"none", "">>
    /\ NoCall
    /\ UNCHANGED <<env, uploaded, pc>>
    /\ UNCHANGED pvars

\* the uploader's value changes: on_change=_reset_output runs, then the script
UploadChange(f) ==
    /\ pc = "idle"
    /\ ~(f = "None" /\ uploaded = "None")
    /\ uploaded' = f
    /\ session_state' = _reset_output(session_state)
    /\ shown' = Render(session_state')
    /\ result' = <<"none", "">>
    /\ NoCall
    /\ UNCHANGED <<env, login_pw, pc>>
    /\ UNCHANGED pvars

\* any other interaction (download click, typing in a field): a plain rerun
Rerun ==
    /\ pc = "idle"
    /\ shown' = Render(session_state)
    /\ result' = <<"none", "">>
    /\ NoCall
    /\ UNCHANGED <<env, session_state, uploaded, login_pw, pc>>
    /\ UNCHANGED pvars

\* the generate button is clicked: login = False, run_btn = True.
\* Lines 66-73 stop the run unless the guards pass; line 320 skips the block
\* without a file; lines 321-325 read and extract the PDF outside the try.
GenerateClick ==
    /\ pc = "idle"
    /\ NoCall
    /\ IF Guard(session_state) # "pass" \/ uploaded = "None"
       THEN /\ shown' = Render(session_state)
            /\ result' = <<"none", "">>
            /\ pc' = "idle"
       ELSE IF uploaded \in Unreadable
       THEN /\ shown' = {"traceback"}
            /\ result' = <<"uncaught", "PDFSyntaxError">>
            /\ pc' = "idle"
       ELSE /\ shown' = {"spinner"}
            /\ result' = <<"none", "">>
            /\ pc' = "calling"
    /\ UNCHANGED <<env, session_state, uploaded, login_pw>>
    /\ UNCHANGED pvars

\* client.responses.create raises: the retry wrapper waits and calls again, or
\* reraises into the except clause of line 337 (st.error, st.stop)
AttemptFails(kind) ==
    /\ pc = "calling"
    /\ attempts' = attempts + 1
    /\ failures' = Append(failures, kind)
    /\ IF ShouldRetry(kind) /\ ~StopAfterAttempt(attempts + 1)
       THEN /\ slept' = slept + WaitExponential(attempts + 1)
            /\ UNCHANGED <<pc, result, shown>>
       ELSE /\ pc' = "idle"
            /\ result' = <<"caught", kind>>
            /\ shown' = {"error_generate"}
            /\ UNCHANGED slept
    /\ UNCHANGED <<env, session_state, uploaded, login_pw>>
    /\ UNCHANGED pvars

\* lines 333-335: the three artifacts of one generation
StoreArtifacts(ss, final_text, f) ==
    Put(Put(Put(ss, "gen_text", final_text), "docx_bytes", to_docx(final_text)),
        "last_key", cache_key(f))

\* client.responses.create returns raw: lines 330-335, then the display; when
\* to_docx raises, the except clause of line 337 runs instead
AttemptSucceeds(raw, docx_raises) ==
    /\ pc = "calling"
    /\ attempts' = attempts + 1
    /\ pc' = "idle"
    /\ IF docx_raises
       THEN /\ result' = <<"caught", "ValueError">>
            /\ shown' = {"error_generate"}
            /\ UNCHANGED session_state
       ELSE /\ session_state' = StoreArtifacts(session_state, postprocess(raw), uploaded)
            /\ result' = <<"ok", "">>
            /\ shown' = Display(session_state')
    /\ UNCHANGED <<env, uploaded, login_pw, failures, slept>>
    /\ UNCHANGED pvars

Next ==
    \/ \E pw \in Passwords, key \in ApiKeys : LoginClick(pw, key)
    \/ \E f \in Files \cup {"None"} : UploadChange(f)
    \/ Rerun
    \/ GenerateClick
    \/ \E kind \in ExcKinds : AttemptFails(kind)
    \/ \E raw \in RawTexts, docx_raises \in BOOLEAN : AttemptSucceeds(raw, docx_raises)

Spec == Init /\ [][Next]_vars

PNext ==
    \/ \E f \in Fragments : AppendFragment(f)
    \/ Normalize
    \/ NormalizeAgain

\* the normaliser on its own: the session stays as constructed
PostInit == Init /\ env = "unset"

PostSpec == PostInit /\ [][PNext]_vars

(***************************************************************************)
(* Vocabulary of the claims.                                               *)
(***************************************************************************)
\* the letter P in every glyph variant, the equals sign in both widths
AnyP == {"P", "p", "FWP", "FWp"}
AnyEq == {"=", "FW="}
\* the opening glyphs and their matching closing glyphs
OpeningGlyphs == {"LB", "LW", "LDQ", "DQ", "FWDQ"}
ClosingGlyphs == {"RB", "RW", "RDQ", "DQ", "FWDQ"}
\* failure kinds the documentation calls transient, and those it calls non-transient
TransientKinds == {"RateLimitError", "APITimeoutError", "InternalServerError"}
NonTransientKinds == {"AuthenticationError", "BadRequestError"}

Normalized == stage \in {"once", "twice"}

\* index of the first non-blank line of t, 0 if every line is blank
FirstNonBlank(t) ==
    LET lines == SplitLines(t)
        nonblank == {i \in 1..Len(lines) : Strip(lines[i]) # <<>>}
    IN  IF nonblank = {} THEN 0 ELSE CHOOSE k \in nonblank : \A m \in nonblank : k <= m

\* t holds, at i, a P-variant, optional whitespace and an equals sign that is
\* not the canonical "p=" followed by no whitespace
NonCanonicalPAt(t, i) ==
    LET j == SkipSet(t, i + 1, Whitespace)
    IN  /\ t[i] \in AnyP
        /\ j <= Len(t)
        /\ t[j] \in AnyEq
        /\ ~(t[i] = "p" /\ j = i + 1 /\ t[j] = "=" /\ (j = Len(t) \/ t[j + 1] \notin Whitespace))

\* s is one sentence (no terminator before its final full stop) that holds the
\* word for slide and, later, presented or displayed
ForbiddenSentence(s) ==
    /\ Len(s) >= 1
    /\ s[Len(s)] = "MARU"
    /\ \A k \in 1..(Len(s) - 1) : s[k] \notin Terminators
    /\ \E j \in 1..Len(s) :
          /\ MatchAt(s, j, <<"SU", "RA", "I", "DO">>)
          /\ \E k \in (j + 4)..Len(s) : MatchAt(s, k, Teiji) \/ MatchAt(s, k, Hyoji)

\* t is made of sentences no pass touches
PlainSentences(t) ==
    /\ \A k \in 1..Len(t) : t[k] \in {"a", "MARU"}
    /\ t = <<>> \/ t[Len(t)] = "MARU"

AllTransient == \A i \in 1..Len(failures) : failures[i] \in TransientKinds

ArtifactsPresent == ArtifactKeys \subseteq DOMAIN session_state

(***************************************************************************)
(* Claims.                                                                 *)
(***************************************************************************)
\* C1: normalising a second time never changes the result of the first run:
\* postprocess(postprocess(t)) = postprocess(t).
Idempotent == stage = "twice" => out2 = out1

\* C2: the output of postprocess holds no "P=", no digit directly followed by
\* the month character, no control-group term in its disallowed form and no
\* "Freedom from".
NormalForm ==
    Normalized =>
        /\ ~Contains(out1, <<"P", "=">>)
        /\ \A i \in 1..(Len(out1) - 1) : ~(out1[i] \in Digits /\ out1[i + 1] = "TSUKI")
        /\ ~Contains(out1, TaishoGun)
        /\ ~Contains(out1, FreedomFrom)

\* C3: every P-variant followed by optional whitespace, an equals sign and
\* optional whitespace comes out as exactly "p="; uppercase P with a full-width
\* equals sign before a number comes out as "p=" before that number.
PValueCanonical ==
    Normalized =>
        /\ \A i \in 1..Len(out1) : ~NonCanonicalPAt(out1, i)
        /\ text = <<"P", "FW=", "4">> => out1 = <<"p", "=", "4">>

\* C4: when the input has a non-blank line, the first non-blank line of the
\* output neither starts with an opening glyph nor ends with a closing glyph,
\* and a later line made of bracket glyphs and plain characters is untouched.
TitleUnquoted ==
    (Normalized /\ FirstNonBlank(text) # 0) =>
        LET ins == SplitLines(text)
            outs == SplitLines(out1)
            k == FirstNonBlank(out1)
        IN  /\ k # 0 => /\ outs[k][1] \notin OpeningGlyphs
                         /\ outs[k][Len(outs[k])] \notin ClosingGlyphs
            /\ Len(outs) = Len(ins) =>
                   \A j \in (FirstNonBlank(text) + 1)..Len(ins) :
                       (\A c \in 1..Len(ins[j]) : ins[j][c] \in OpeningGlyphs \cup ClosingGlyphs \cup {"a"})
                           => outs[j] = ins[j]

\* C5: a sentence that holds the word for slide and later presented or
\* displayed is removed from its start to its full stop, and the sentences
\* before and after it stay as they are.
SlideSentenceRemoved ==
    Normalized =>
        \A i \in 0..Len(text), j \in 0..Len(text) :
            (/\ i < j
             /\ PlainSentences(SubSeq(text, 1, i))
             /\ ForbiddenSentence(SubSeq(text, i + 1, j))
             /\ PlainSentences(From(text, j + 1)))
                => out1 = SubSeq(text, 1, i) \o From(text, j + 1)

\* C6: one generation request makes at most 4 calls; while fewer than 4 calls
\* have failed, all transiently, the wrapper is still calling (so a success on
\* the fourth call reaches the caller); the fourth transient failure ends the
\* request with that failure shown and no fifth call.
RetryUpToFour ==
    /\ attempts <= 4
    /\ (attempts > 0 /\ attempts = Len(failures) /\ AllTransient) =>
           IF attempts < 4
           THEN pc = "calling"
           ELSE /\ pc = "idle"
                /\ result = <<"caught", failures[4]>>
                /\ shown = {"error_generate"}

\* three transient failures, then the fourth call succeeds and its result is stored
RetryUpToFourWitness ==
    /\ Len(failures) = 3
    /\ AllTransient
    /\ attempts = 4
    /\ result = <<"ok", "">>

\* C7: a non-transient failure of the first call reaches the caller at once:
\* one call, no backoff wait.
NonTransientFailsFast ==
    (failures # <<>> /\ failures[1] \in NonTransientKinds) =>
        /\ attempts = 1
        /\ slept = 0
        /\ pc = "idle"
        /\ result = <<"caught", failures[1]>>

\* C8: every error raised on the generation path is caught by the generate
\* block and shown as its error message, and the run halts.
ErrorsCaughtAtBoundary ==
    result[1] \in {"caught", "uncaught"} =>
        /\ result[1] = "caught"
        /\ shown = {"error_generate"}
        /\ pc = "idle"

\* C9: the language model is called only in a session whose auth_ok is true,
\* whose last login matched the configured hash (or none is configured), and
\* which holds a non-empty API key.
CallOnlyWhenAuthorized ==
    (pc = "calling" \/ attempts > 0) =>
        /\ Get(session_state, "auth_ok", FALSE) = TRUE
        /\ Strip(Get(session_state, "api_key", <<>>)) # <<>>
        /\ \/ _get_password_hash(env) = <<>>
           \/ _sha256(login_pw) = _get_password_hash(env)

\* the model was called in a session whose gate is configured
CallOnlyWhenAuthorizedWitness ==
    /\ attempts > 0
    /\ _get_password_hash(env) # <<>>

\* the artifacts are all present or all absent; when present they belong to one
\* generation of the file now in the uploader; the download is offered only
\* then, and never by a run whose generation failed
ArtifactsConsistent ==
    /\ (DOMAIN session_state) \cap ArtifactKeys \in {{}, ArtifactKeys}
    /\ ArtifactsPresent =>
           /\ uploaded \in Files
           /\ session_state["gen_text"] \in {postprocess(raw) : raw \in RawTexts}
           /\ session_state["docx_bytes"] = to_docx(session_state["gen_text"])
           /\ session_state["last_key"] = cache_key(uploaded)
    /\ "download" \in shown => ArtifactsPresent
    /\ result[1] \in {"caught", "uncaught"} => shown \cap {"download", "success"} = {}

\* C10: gen_text, docx_bytes and last_key are all present or all absent; when
\* present they belong to one generation of the file now in the uploader; the
\* download is offered only then; a failed generation writes none of them.
ArtifactsComplete ==
    /\ []ArtifactsConsistent
    /\ [][result'[1] \in {"caught", "uncaught"} => session_state' = session_state]_vars

\* a generation failed after an earlier one succeeded: the artifacts are intact
ArtifactsCompleteWitness ==
    /\ ArtifactsPresent
    /\ result[1] = "caught"
    /\ attempts > 0

====
